---- MODULE Spec2Model ----
(***************************************************************************)
(* Collaborative Sudoku: the puzzle engine (src/client/src/lib/sudoku.ts)  *)
(* and the room mutation core (the move, undo and new-game handlers of     *)
(* src/server/storage.ts, over MemStorage).                                *)
(*                                                                         *)
(* One room is modelled.  Under Spec every handler is one action:           *)
(* MemStorage's async methods resolve without I/O, so a handler's awaits   *)
(* are drained as microtasks before the next request is dispatched.        *)
(* SpecAsync splits the move, undo and state handlers at their awaits and   *)
(* lets the requests in flight take turns there.                           *)
(* SpecGen runs generateSudoku step by step from the empty grid, and       *)
(* SpecCarve runs the removal loop of generateLogicalSudoku turn by turn.   *)
(*                                                                         *)
(* Grids are functions over 0..8 x 0..8 as in the source.  JavaScript      *)
(* arrays of notes are modelled as sets of numbers: the code only          *)
(* replaces, copies and filters them.  Room.board, Room.notes and          *)
(* Room.incorrectCells are held by reference in MemStorage.rooms; where    *)
(* the handlers copy them shallowly the model keeps the sharing of rows.   *)
(***************************************************************************)
EXTENDS Integers, Sequences, FiniteSets, TLC

\* ------------------------------------------------------------- bounds ----
\* Cells carved out of the solution at a deal (81 - filledCells).
MaxHoles == 2
\* Most move records ever created (MemStorage.currentMoveId - 1).
MaxMoves == 3
\* Streams of Math.random outcomes generateSudoku is run on: 0..MaxSeed.
MaxSeed == 3
\* Most cells generateLogicalSudoku is asked to remove (81 - filledCells).
MaxCarved == 4

\* ---------------------------------------------------------- constants ----
N == 9
BoxSize == 3
\* Errors at which the game is lost.
MaxErrors == 3
\* JavaScript null (value of a delete, previousValue of an empty cell).
null == -1

Idx == 0 .. (N - 1)
Cells == Idx \X Idx
Players == {1, 2}

\* The requests the modelled clients send.  Player 1 works on the first cell
\* carved and player 2 on the second; null is a delete, 0 an empty value.
NumberInputs ==
    ({1} \X {<<0, 1>>} \X {null, 0, 2, 4}) \cup ({2} \X {<<1, 0>>} \X {2, 4})
NoteInputs == {<<1, <<0, 1>>, {2, 4}>>, <<2, <<1, 0>>, {2, 4}>>}
ClearInputs == {<<1, <<0, 1>>>>}

Max(a, b) == IF a >= b THEN a ELSE b

SetCell(grid, row, col, v) == [grid EXCEPT ![row][col] = v]

EmptyNotes == [r \in Idx |-> [c \in Idx |-> {}]]
NoIncorrect == [r \in Idx |-> [c \in Idx |-> FALSE]]

\* ------------------------------------------------- constraint checker ----
boxStart(i) == (i \div BoxSize) * BoxSize

BoxOf(row, col) ==
    {<<r, c>> : r \in boxStart(row) .. (boxStart(row) + BoxSize - 1),
                c \in boxStart(col) .. (boxStart(col) + BoxSize - 1)}

\* Mutant: the 3x3 box is not looked at.
isValidPlacementRowColOnly(board, row, col, num) ==
    /\ \A j \in Idx : board[row][j] # num
    /\ \A i \in Idx : board[i][col] # num

isValidPlacement(board, row, col, num) ==
    /\ \A j \in Idx : board[row][j] # num
    /\ \A i \in Idx : board[i][col] # num
    /\ \A p \in BoxOf(row, col) : board[p[1]][p[2]] # num

isCompleted(board) == \A i \in Idx : \A j \in Idx : board[i][j] # 0

\* ------------------------------------------------- uniqueness solver ----
\* First empty cell in row-major order (the nested for loops).
FirstEmpty(board) ==
    LET empties == {p \in Cells : board[p[1]][p[2]] = 0}
    IN  CHOOSE p \in empties :
            \A q \in empties : (p[1] * N + p[2]) <= (q[1] * N + q[2])

RECURSIVE countSolutions(_, _)
RECURSIVE tryNumbers(_, _, _, _, _)

\* countSolutions(board) with the shared counter solutionCount threaded
\* through: the result is the counter after the call.
countSolutions(board, solutionCount) ==
    IF solutionCount > 1 THEN solutionCount
    ELSE IF isCompleted(board) THEN solutionCount + 1
    ELSE LET p == FirstEmpty(board)
         IN  tryNumbers(board, p[1], p[2], 1, solutionCount)

\* The loop "for num = 1..9" at the first empty cell, taken up at the next
\* number that passes isValidPlacement: the loop skips the numbers that
\* fail it without effect.
tryNumbers(board, row, col, num, solutionCount) ==
    LET valid == {n \in num .. N : isValidPlacement(board, row, col, n)}
    IN  IF valid = {} THEN solutionCount
        ELSE LET n == CHOOSE m \in valid : \A k \in valid : m <= k
                 after == countSolutions(SetCell(board, row, col, n),
                                         solutionCount)
             IN  IF after > 1 THEN after
                 ELSE tryNumbers(board, row, col, n + 1, after)

\* Mutant: one solution or more will do.
hasSolution(board) == countSolutions(board, 0) >= 1

hasUniqueSolution(board) == countSolutions(board, 0) = 1

\* ---------------------------------------------- logical solvability ----
\* The numbers no cell of the row, the column or the box of (row, col)
\* holds; none for a cell that is not empty.
getPossibleValues(board, row, col) ==
    IF board[row][col] # 0 THEN {}
    ELSE LET used == {board[row][c] : c \in Idx}
                     \cup {board[r][col] : r \in Idx}
                     \cup {board[p[1]][p[2]] : p \in BoxOf(row, col)}
         IN  (1 .. N) \ used

\* Where a run of canSolveWithLogic stands inside one turn of its while
\* loop: workingBoard, changed, and whether it has returned false.
ScanState(workingBoard, changed, dead) ==
    [board |-> workingBoard, changed |-> changed, dead |-> dead]

\* Strategy 1 at one cell.
nakedSingleAt(st, row, col) ==
    IF st.board[row][col] # 0 THEN st
    ELSE LET possible == getPossibleValues(st.board, row, col)
         IN  IF Cardinality(possible) = 1
             THEN ScanState(SetCell(st.board, row, col,
                                    CHOOSE v \in possible : TRUE),
                            TRUE, FALSE)
             ELSE IF possible = {}
                  THEN ScanState(st.board, st.changed, TRUE)
                  ELSE st

RECURSIVE nakedSinglesInRow(_, _, _)
RECURSIVE nakedSingles(_, _)

\* Strategy 1, the loop over col from col on; "return false" ends it.
nakedSinglesInRow(st, row, col) ==
    IF col >= N \/ st.dead THEN st
    ELSE nakedSinglesInRow(nakedSingleAt(st, row, col), row, col + 1)

\* Strategy 1, the loop over row from row on.
nakedSingles(st, row) ==
    IF row >= N \/ st.dead THEN st
    ELSE nakedSingles(nakedSinglesInRow(st, row, 0), row + 1)

\* The rows, the columns and the boxes in the order the loops take them.
RowUnits == [i \in 1 .. N |-> {<<i - 1, c>> : c \in Idx}]
ColumnUnits == [i \in 1 .. N |-> {<<r, i - 1>> : r \in Idx}]
BoxUnits ==
    [i \in 1 .. N |->
        BoxOf(((i - 1) \div BoxSize) * BoxSize, ((i - 1) % BoxSize) * BoxSize)]

\* Strategy 2 for one unit and one number: the number is written where it
\* is possible if that is a single cell of the unit.
hiddenSingleIn(st, unit, num) ==
    LET possibleCells ==
            {p \in unit : /\ st.board[p[1]][p[2]] = 0
                          /\ num \in getPossibleValues(st.board, p[1], p[2])}
    IN  IF Cardinality(possibleCells) = 1
        THEN LET p == CHOOSE q \in possibleCells : TRUE
             IN  ScanState(SetCell(st.board, p[1], p[2], num), TRUE, st.dead)
        ELSE st

RECURSIVE hiddenSinglesInUnit(_, _, _)
RECURSIVE hiddenSingles(_, _, _)

\* Strategy 2, the loop over num from num on in one unit.
hiddenSinglesInUnit(st, unit, num) ==
    IF num > N \/ st.dead THEN st
    ELSE hiddenSinglesInUnit(hiddenSingleIn(st, unit, num), unit, num + 1)

\* Strategy 2, the loop over the units from the i-th on.
hiddenSingles(st, units, i) ==
    IF i > Len(units) \/ st.dead THEN st
    ELSE hiddenSingles(hiddenSinglesInUnit(st, units[i], 1), units, i + 1)

\* Mutant: strategy 2 is left out.
nakedSinglesOnly(workingBoard) ==
    nakedSingles(ScanState(workingBoard, FALSE, FALSE), 0)

\* Mutant: a turn writes the smallest candidate into the first empty cell.
guessingPass(workingBoard) ==
    IF isCompleted(workingBoard) THEN ScanState(workingBoard, FALSE, FALSE)
    ELSE LET cell == FirstEmpty(workingBoard)
             possible == getPossibleValues(workingBoard, cell[1], cell[2])
         IN  IF possible = {} THEN ScanState(workingBoard, FALSE, TRUE)
             ELSE ScanState(SetCell(workingBoard, cell[1], cell[2],
                                    CHOOSE v \in possible :
                                        \A w \in possible : v <= w),
                            TRUE, FALSE)

\* One turn of "while (changed)": changed is reset, then the cells are
\* scanned for naked singles and the rows, columns and boxes for hidden
\* singles, each on the board the scans before it left.
logicPass(workingBoard) ==
    LET naked == nakedSingles(ScanState(workingBoard, FALSE, FALSE), 0)
    IN  IF naked.dead THEN naked
        ELSE hiddenSingles(hiddenSingles(hiddenSingles(naked, RowUnits, 1),
                                         ColumnUnits, 1),
                           BoxUnits, 1)

\* ------------------------------------------------------ puzzle carver ----
RECURSIVE carve(_, _, _, _, _)

\* The removal loop over positions[i..], with the counter "removed".
carve(puzzle, positions, i, removed, cellsToRemove) ==
    IF i > Len(positions) \/ removed >= cellsToRemove THEN puzzle
    ELSE LET row == positions[i][1]
             col == positions[i][2]
             cleared == SetCell(puzzle, row, col, 0)
         IN  IF hasUniqueSolution(cleared)
             THEN carve(cleared, positions, i + 1, removed + 1, cellsToRemove)
             ELSE carve(puzzle, positions, i + 1, removed, cellsToRemove)

\* positions is the outcome of the Fisher-Yates shuffle.
generateLogicalSudoku(solution, filledCells, positions) ==
    carve(solution, positions, 1, 0, (N * N) - filledCells)

\* ------------------------------------------------------------- deals ----
\* One outcome of generateSudoku: a completed valid grid.
Sol == [r \in Idx |-> [c \in Idx |->
            ((r * BoxSize + (r \div BoxSize) + c) % N) + 1]]
Solutions == {Sol}

RowMajor == [i \in 1 .. (N * N) |-> <<(i - 1) \div N, (i - 1) % N>>]

InSeq(x, s) == \E i \in 1 .. Len(s) : s[i] = x

\* A permutation of the 81 positions that starts with the given cells.
ShuffleFrom(prefix) ==
    prefix \o SelectSeq(RowMajor, LAMBDA p : ~InSeq(p, prefix))

Shuffles == {ShuffleFrom(<<<<0, 1>>, <<1, 0>>, <<8, 8>>>>)}

\* Filled-cell targets of the difficulty table.
FilledCells == {(N * N) - MaxHoles}

createLockedCells(board) == [r \in Idx |-> [c \in Idx |-> board[r][c] # 0]]

Deals ==
    {[solution |-> s, board |-> generateLogicalSudoku(s, f, pos)] :
        s \in Solutions, f \in FilledCells, pos \in Shuffles}

\* ---------------------------------------------------------- auto-lock ----
isRowComplete(board, row) ==
    LET seen == {board[row][col] : col \in Idx}
    IN  0 \notin seen /\ Cardinality(seen) = N

isColumnComplete(board, col) ==
    LET seen == {board[row][col] : row \in Idx}
    IN  0 \notin seen /\ Cardinality(seen) = N

isBlockComplete(board, blockRow, blockCol) ==
    LET seen == {board[p[1]][p[2]] :
                    p \in BoxOf(blockRow * BoxSize, blockCol * BoxSize)}
    IN  0 \notin seen /\ Cardinality(seen) = N

\* Mutant: the mask is rebuilt from the complete units alone.
getAutoLockCellsFromScratch(board, currentLocked) ==
    [row \in Idx |-> [col \in Idx |->
        \/ isRowComplete(board, row)
        \/ isColumnComplete(board, col)
        \/ isBlockComplete(board, row \div BoxSize, col \div BoxSize)]]

getAutoLockCells(board, currentLocked) ==
    LET rows == {row \in Idx : isRowComplete(board, row)}
        cols == {col \in Idx : isColumnComplete(board, col)}
        blocks == {blk \in (0 .. (BoxSize - 1)) \X (0 .. (BoxSize - 1)) :
                      isBlockComplete(board, blk[1], blk[2])}
    IN  [row \in Idx |-> [col \in Idx |->
            \/ currentLocked[row][col]
            \/ row \in rows
            \/ col \in cols
            \/ <<row \div BoxSize, col \div BoxSize>> \in blocks]]

isPuzzleCompleted(board, solution) ==
    /\ isCompleted(board)
    /\ \A row \in Idx : \A col \in Idx : board[row][col] = solution[row][col]

\* Mutant: the box is not swept.
removeNumberFromRowAndColumn(ns, row, col, number) ==
    [r \in Idx |-> [c \in Idx |->
        IF r = row \/ c = col THEN ns[r][c] \ {number} ELSE ns[r][c]]]

removeNumberFromRelatedNotes(ns, row, col, number) ==
    [r \in Idx |-> [c \in Idx |->
        IF \/ r = row
           \/ c = col
           \/ (boxStart(r) = boxStart(row) /\ boxStart(c) = boxStart(col))
        THEN ns[r][c] \ {number}
        ELSE ns[r][c]]]

\* ------------------------------------------------------ room state ----
VARIABLES
    board,           \* Room.board
    solution,        \* Room.solution
    lockedCells,     \* Room.lockedCells
    notes,           \* Room.notes
    incorrectCells,  \* Room.incorrectCells
    errors,          \* Room.errors
    isGameOver,      \* Room.isGameOver
    isWon,           \* Room.isWon
    totalMoves,      \* Room.totalMoves
    gameEndedAt,     \* Room.gameEndedAt
    moves,           \* MemStorage.moves, in insertion order
    currentMoveId,   \* MemStorage.currentMoveId
    dealt,           \* the board as it was dealt (the givens)
    last             \* the last request served and what it saw

\* The run of generateSudoku (SpecGen).
VARIABLES
    genBoard,        \* the board fillBoard works on
    genFrames,       \* the activations of fillBoard, outermost first
    genState,        \* where the innermost activation stands
    genSeed,         \* which stream of Math.random outcomes is drawn
    genDraws,        \* shuffles drawn so far
    genBacktracked   \* some activation has returned false

genVars == <<genBoard, genFrames, genState, genSeed, genDraws, genBacktracked>>

\* The run of generateLogicalSudoku (SpecCarve).
VARIABLES
    carveSolution,   \* the argument solution
    puzzle,          \* the copy being carved
    positions,       \* the shuffled positions
    carveIdx,        \* the turn of "for (const [row, col] of positions)"
    removed,         \* cells removed so far
    cellsToRemove,   \* 81 - filledCells
    carveState       \* "loop" until the function has returned

carveVars == <<carveSolution, puzzle, positions, carveIdx, removed,
               cellsToRemove, carveState>>

\* The requests in flight (SpecAsync).
VARIABLES
    pc,              \* per player: the await its request stands at
    req,             \* per player: req.body and req.params
    room,            \* per player: the Room object getGameState returned
    tmp,             \* per player: the handler's locals
    rpc,             \* the await the state request stands at
    rroom,           \* the Room object the state request got
    start,           \* room and move log when the requests began
    started          \* the moves and undos begun since, in order

asyncVars == <<pc, req, room, tmp, rpc, rroom, start, started>>

\* One call of isValidMove, hasUniqueSolution or canSolveWithLogic
\* (SpecEngine).
VARIABLES
    fn,              \* the function called
    argBoard,        \* the board passed to it
    argRow,          \* isValidMove: row
    argCol,          \* isValidMove: col
    argNum,          \* isValidMove: num
    workingBoard,    \* canSolveWithLogic: the copy it works on
    changed,         \* canSolveWithLogic: the flag of its while loop
    solutionCount,   \* hasUniqueSolution: the counter
    callState,       \* "called", "loop" or "returned"
    result           \* the value returned

engineVars == <<fn, argBoard, argRow, argCol, argNum, workingBoard, changed,
                solutionCount, callState, result>>

roomVars == <<board, solution, lockedCells, notes, incorrectCells, errors,
              isGameOver, isWon, totalMoves, gameEndedAt>>
storeVars == <<moves, currentMoveId>>
vars == <<board, solution, lockedCells, notes, incorrectCells, errors,
          isGameOver, isWon, totalMoves, gameEndedAt, moves, currentMoveId,
          dealt, last, genVars, carveVars, asyncVars, engineVars>>

\* The variables of the other specifications, which Spec leaves alone.
otherVars == <<genVars, carveVars, asyncVars, engineVars>>

\* The target cell and the error counter as a request finds them.
Snapshot(row, col) ==
    [value |-> board[row][col], notes |-> notes[row][col],
     incorrect |-> incorrectCells[row][col], errors |-> errors]

NoSnapshot == [value |-> 0, notes |-> {}, incorrect |-> FALSE, errors |-> 0]

\* What is remembered of a request: of a rejected one, only which it was.
Request(op, ok, playerId, row, col, moveType, value, n, before) ==
    [op |-> op, ok |-> ok, playerId |-> playerId, row |-> row, col |-> col,
     moveType |-> moveType, value |-> value, notes |-> n, before |-> before]

Rejected(op) ==
    Request(op, FALSE, 0, 0, 0, "none", null, {}, NoSnapshot)

\* JavaScript "v || d" on a number or null.
JsOr(v, d) == IF v = null \/ v = 0 THEN d ELSE v

\* ---------------------------------------------------------- make move ----
\* Mutant: the lock guard is dropped.
moveRejectedIgnoringLock(gameOver, locked, row, col) == gameOver

moveRejected(gameOver, locked, row, col) == gameOver \/ locked[row][col]

moveIsCorrect(sol, row, col, moveType, value) ==
    IF moveType = "number" THEN value = null \/ sol[row][col] = value
    ELSE TRUE

boardAfterMove(b, row, col, moveType, value) ==
    CASE moveType = "number" -> SetCell(b, row, col, JsOr(value, 0))
      [] moveType = "note"   -> b
      [] moveType = "clear"  -> SetCell(b, row, col, 0)

\* Mutant: every digit placed counts as an error.
errorsAfterMoveCountingAll(e, moveType, value, isCorrect) ==
    IF moveType = "number" /\ value # null THEN e + 1 ELSE e

\* Mutant: a clear gives one error back.
errorsAfterMoveRefundingClear(e, moveType, value, isCorrect) ==
    IF moveType = "number" /\ value # null /\ ~isCorrect THEN e + 1
    ELSE IF moveType = "clear" THEN Max(0, e - 1) ELSE e

errorsAfterMove(e, moveType, value, isCorrect) ==
    IF moveType = "number" /\ value # null /\ ~isCorrect THEN e + 1 ELSE e

incorrectAfterMove(inc, row, col, moveType, value, isCorrect) ==
    CASE moveType = "number" ->
            SetCell(inc, row, col, value # null /\ ~isCorrect)
      [] moveType = "note"   -> inc
      [] moveType = "clear"  -> SetCell(inc, row, col, FALSE)

\* Mutant: a note move toggles the supplied marks in the cell's notes.
notesAfterMoveToggling(ns, row, col, moveType, value, n, isCorrect) ==
    CASE moveType = "number" ->
            LET cleared == SetCell(ns, row, col, {})
            IN  IF value # null /\ isCorrect
                THEN removeNumberFromRelatedNotes(cleared, row, col, value)
                ELSE cleared
      [] moveType = "note"   ->
            SetCell(ns, row, col, (ns[row][col] \ n) \cup (n \ ns[row][col]))
      [] moveType = "clear"  -> SetCell(ns, row, col, {})

notesAfterMove(ns, row, col, moveType, value, n, isCorrect) ==
    CASE moveType = "number" ->
            LET cleared == SetCell(ns, row, col, {})
            IN  IF value # null /\ isCorrect
                THEN removeNumberFromRelatedNotes(cleared, row, col, value)
                ELSE cleared
      [] moveType = "note"   -> SetCell(ns, row, col, n)
      [] moveType = "clear"  -> SetCell(ns, row, col, {})

\* Mutant: the loss threshold is off by one.
gameOverAfterMoveStrict(newErrors, won) == newErrors > MaxErrors \/ won

gameOverAfterMove(newErrors, won) == newErrors >= MaxErrors \/ won

\* Mutant: every accepted move stamps the end time.
endTimeAfterEveryMove(endedAt, wasOver, over, now) == now

\* "new Date()" is read off a logical clock that ticks once per move record:
\* the time of an accepted move is the id its record is about to get.
endTimeAfterMove(endedAt, wasOver, over, now) ==
    IF over /\ ~wasOver THEN now ELSE endedAt

\* insertMoveSchema.parse(...) followed by MemStorage.createMove.
moveRecord(id, playerId, row, col, moveType, value, n, isCorrect, original) ==
    [id |-> id, playerId |-> playerId, row |-> row, col |-> col,
     value |-> JsOr(IF moveType = "number" THEN value ELSE null, null),
     notes |-> IF moveType = "note" THEN {n} ELSE {},
     moveType |-> moveType, isCorrect |-> isCorrect,
     previousValue |-> JsOr(original.board[row][col], null),
     previousNotes |-> original.notes[row][col],
     previousIncorrect |-> original.incorrectCells[row][col]]

MakeMove(playerId, row, col, moveType, value, n) ==
    IF moveRejected(isGameOver, lockedCells, row, col)
    THEN /\ last' = Rejected("move")
         /\ UNCHANGED <<roomVars, storeVars, dealt, otherVars>>
    ELSE LET isCorrect == moveIsCorrect(solution, row, col, moveType, value)
             newBoard == boardAfterMove(board, row, col, moveType, value)
             newNotes == notesAfterMove(notes, row, col, moveType, value, n,
                                        isCorrect)
             newIncorrect == incorrectAfterMove(incorrectCells, row, col,
                                                moveType, value, isCorrect)
             newErrors == errorsAfterMove(errors, moveType, value, isCorrect)
             won == isPuzzleCompleted(newBoard, solution)
             \* originalBoard and originalIncorrectCells are shallow copies:
             \* their rows are the rows just written.  originalNotes was
             \* copied cell by cell before the write.
             originalBoard == newBoard
             originalNotes == notes
             originalIncorrectCells == newIncorrect
         IN  /\ currentMoveId <= MaxMoves
             /\ board' = newBoard
             /\ notes' = newNotes
             /\ incorrectCells' = newIncorrect
             /\ lockedCells' = getAutoLockCells(newBoard, lockedCells)
             /\ errors' = newErrors
             /\ isGameOver' = gameOverAfterMove(newErrors, won)
             /\ isWon' = won
             /\ totalMoves' = Len(moves) + 1
             /\ gameEndedAt' =
                    endTimeAfterMove(gameEndedAt, isGameOver,
                                     gameOverAfterMove(newErrors, won),
                                     currentMoveId)
             /\ moves' = Append(moves,
                    moveRecord(currentMoveId, playerId, row, col, moveType,
                               value, n,
                               isCorrect,
                               [board |-> originalBoard,
                                notes |-> originalNotes,
                                incorrectCells |-> originalIncorrectCells]))
             /\ currentMoveId' = currentMoveId + 1
             /\ last' = Request("move", TRUE, playerId, row, col, moveType,
                                value, n, Snapshot(row, col))
             /\ UNCHANGED <<solution, dealt, otherVars>>

\* --------------------------------------------------------------- undo ----
\* Index in moves of the player's most recent record, 0 if there is none.
getLastPlayerMove(ms, playerId) ==
    LET mine == {i \in 1 .. Len(ms) : ms[i].playerId = playerId}
    IN  IF mine = {} THEN 0 ELSE CHOOSE i \in mine : \A j \in mine : j <= i

deleteMove(ms, id) == SelectSeq(ms, LAMBDA m : m.id # id)

\* Mutant: the game-over guard is dropped.
undoRejectedOnlyWhenEmpty(gameOver, ms, playerId) ==
    getLastPlayerMove(ms, playerId) = 0

undoRejected(gameOver, ms, playerId) ==
    gameOver \/ getLastPlayerMove(ms, playerId) = 0

\* Mutant: the cell mirrored across the diagonal is emptied as well.
boardAfterUndoWithMirror(b, lastMove) ==
    SetCell(SetCell(b, lastMove.col, lastMove.row, 0),
            lastMove.row, lastMove.col, JsOr(lastMove.previousValue, 0))

boardAfterUndo(b, lastMove) ==
    SetCell(b, lastMove.row, lastMove.col, JsOr(lastMove.previousValue, 0))

\* Mutant: undoing a correct digit also writes it back into the notes of the
\* cells of its row, column and box that carry notes.
notesAfterUndoRestoringPeers(ns, lastMove) ==
    LET back == lastMove.moveType = "number"
                    /\ lastMove.value \notin {null, 0}
                    /\ lastMove.isCorrect
    IN  [r \in Idx |-> [c \in Idx |->
            IF <<r, c>> = <<lastMove.row, lastMove.col>>
            THEN lastMove.previousNotes
            ELSE IF /\ back
                    /\ ns[r][c] # {}
                    /\ \/ r = lastMove.row
                       \/ c = lastMove.col
                       \/ /\ boxStart(r) = boxStart(lastMove.row)
                          /\ boxStart(c) = boxStart(lastMove.col)
                 THEN ns[r][c] \cup {lastMove.value}
                 ELSE ns[r][c]]]

notesAfterUndo(ns, lastMove) ==
    SetCell(ns, lastMove.row, lastMove.col, lastMove.previousNotes)

incorrectAfterUndo(inc, lastMove) ==
    SetCell(inc, lastMove.row, lastMove.col, lastMove.previousIncorrect)

lockedAfterUndo(b) == getAutoLockCells(b, createLockedCells(b))

\* Mutant: undo gives an error back for every record.
errorsAfterUndoAlwaysRefunding(e, lastMove) == Max(0, JsOr(e, 0) - 1)

errorsAfterUndo(e, lastMove) ==
    Max(0, JsOr(e, 0) - (IF lastMove.isCorrect THEN 0 ELSE 1))

Undo(playerId) ==
    IF undoRejected(isGameOver, moves, playerId)
    THEN /\ last' = Rejected("undo")
         /\ UNCHANGED <<roomVars, storeVars, dealt, otherVars>>
    ELSE LET i == getLastPlayerMove(moves, playerId)
             lastMove == moves[i]
             newBoard == boardAfterUndo(board, lastMove)
         IN  /\ board' = newBoard
             /\ notes' = notesAfterUndo(notes, lastMove)
             /\ incorrectCells' = incorrectAfterUndo(incorrectCells, lastMove)
             /\ moves' = deleteMove(moves, lastMove.id)
             /\ lockedCells' = lockedAfterUndo(newBoard)
             /\ errors' = errorsAfterUndo(errors, lastMove)
             /\ last' = Request("undo", TRUE, playerId, lastMove.row,
                                lastMove.col, "none", null, {}, NoSnapshot)
             /\ UNCHANGED <<solution, isGameOver, isWon, totalMoves,
                            gameEndedAt, currentMoveId, dealt, otherVars>>

\* ----------------------------------------------------------- new game ----
NewGame(deal) ==
    /\ board' = deal.board
    /\ solution' = deal.solution
    /\ lockedCells' = createLockedCells(deal.board)
    /\ notes' = EmptyNotes
    /\ incorrectCells' = NoIncorrect
    /\ errors' = 0
    /\ isGameOver' = FALSE
    /\ isWon' = FALSE
    /\ totalMoves' = 0
    /\ gameEndedAt' = null
    /\ dealt' = deal.board
    /\ last' = Request("newGame", TRUE, 0, 0, 0, "none", null, {},
                       NoSnapshot)
    /\ UNCHANGED <<storeVars, otherVars>>

\* ---------------------------------------------------------- generator ----
EmptyBoard == [r \in Idx |-> [c \in Idx |-> 0]]

Numbers == [i \in 1 .. N |-> i]

Swap(s, a, b) == [s EXCEPT ![a] = s[b], ![b] = s[a]]

\* Math.floor(Math.random() * (i + 1)): the outcome, in 0..i, that stream
\* seed gives the draw-th shuffle at its step i.  Stream 0 always gives i,
\* which leaves the array in order.
randomIndex(seed, draw, i) ==
    (i + (seed * (((draw + 2) * (i + 3)) + 1))) % (i + 1)

RECURSIVE shuffle(_, _, _, _)

\* The Fisher-Yates loop "for (i = length - 1; i > 0; i--)" from step i on.
shuffle(s, i, seed, draw) ==
    IF i <= 0 THEN s
    ELSE shuffle(Swap(s, i + 1, randomIndex(seed, draw, i) + 1), i - 1,
                 seed, draw)

\* The innermost activation of fillBoard.
TopFrame == genFrames[Len(genFrames)]

\* fillBoard is entered: it returns true on a full board, and otherwise
\* shuffles the numbers for the first empty cell.
FillCall ==
    /\ genState = "call"
    /\ IF isCompleted(genBoard)
       THEN /\ genState' = "filled"
            /\ UNCHANGED <<genBoard, genFrames, genDraws>>
       ELSE LET p == FirstEmpty(genBoard)
            IN  /\ genFrames' = Append(genFrames,
                        [row |-> p[1], col |-> p[2], k |-> 1,
                         numbers |-> shuffle(Numbers, N - 1, genSeed,
                                             genDraws)])
                /\ genDraws' = genDraws + 1
                /\ genState' = "loop"
                /\ UNCHANGED genBoard
    /\ UNCHANGED <<genSeed, genBacktracked>>

\* One turn of "for (const num of numbers)": the number is placed and
\* fillBoard called, or the number is skipped, or the numbers are used up
\* and the activation returns false.
FillTry ==
    /\ genState = "loop"
    /\ IF TopFrame.k > N
       THEN /\ genFrames' = SubSeq(genFrames, 1, Len(genFrames) - 1)
            /\ genState' = IF Len(genFrames) = 1 THEN "failed" ELSE "back"
            /\ genBacktracked' = TRUE
            /\ UNCHANGED genBoard
       ELSE IF isValidPlacement(genBoard, TopFrame.row, TopFrame.col,
                                TopFrame.numbers[TopFrame.k])
            THEN /\ genBoard' = SetCell(genBoard, TopFrame.row, TopFrame.col,
                                        TopFrame.numbers[TopFrame.k])
                 /\ genState' = "call"
                 /\ UNCHANGED <<genFrames, genBacktracked>>
            ELSE /\ genFrames' =
                        [genFrames EXCEPT ![Len(genFrames)].k = @ + 1]
                 /\ UNCHANGED <<genBoard, genState, genBacktracked>>
    /\ UNCHANGED <<genSeed, genDraws>>

\* The inner fillBoard returned false: the cell is emptied again and the
\* loop goes on with the next number.
FillBacktrack ==
    /\ genState = "back"
    /\ genBoard' = SetCell(genBoard, TopFrame.row, TopFrame.col, 0)
    /\ genFrames' = [genFrames EXCEPT ![Len(genFrames)].k = @ + 1]
    /\ genState' = "loop"
    /\ UNCHANGED <<genSeed, genDraws, genBacktracked>>

\* generateSudoku is not running.
GenIdle ==
    /\ genBoard = EmptyBoard
    /\ genFrames = <<>>
    /\ genState = "idle"
    /\ genSeed = 0
    /\ genDraws = 0
    /\ genBacktracked = FALSE

\* generateSudoku has made the empty board and calls fillBoard.
GenInit ==
    /\ genBoard = EmptyBoard
    /\ genFrames = <<>>
    /\ genState = "call"
    /\ genSeed \in 0 .. MaxSeed
    /\ genDraws = 0
    /\ genBacktracked = FALSE

\* ------------------------------------------------------- carver run ----
\* generateSudoku's grid when every shuffle leaves the numbers in order.
SolInOrder ==
    LET rows == << <<1, 2, 3, 4, 5, 6, 7, 8, 9>>,
                   <<4, 5, 6, 7, 8, 9, 1, 2, 3>>,
                   <<7, 8, 9, 1, 2, 3, 4, 5, 6>>,
                   <<2, 1, 4, 3, 6, 5, 8, 9, 7>>,
                   <<3, 6, 5, 8, 9, 7, 2, 1, 4>>,
                   <<8, 9, 7, 2, 1, 4, 3, 6, 5>>,
                   <<5, 3, 1, 6, 4, 2, 9, 7, 8>>,
                   <<6, 4, 2, 9, 7, 8, 5, 3, 1>>,
                   <<9, 7, 8, 5, 3, 1, 6, 4, 2>> >>
    IN  [r \in Idx |-> [c \in Idx |-> rows[r + 1][c + 1]]]

\* The arguments generateLogicalSudoku is run on, and the outcomes of its
\* shuffle.  In SolInOrder the cells (0,0), (0,1), (3,0), (3,1) hold 1, 2,
\* 2, 1.
CarveSolutions == {Sol, SolInOrder}
CarveFilledCells == {(N * N) - k : k \in 0 .. MaxCarved}
CarveShuffles ==
    {RowMajor,
     ShuffleFrom(<<<<0, 0>>, <<0, 1>>, <<3, 0>>, <<3, 1>>, <<8, 8>>>>),
     ShuffleFrom(<<<<4, 4>>, <<3, 1>>, <<3, 0>>, <<0, 1>>, <<0, 0>>>>)}

\* Mutant: the loop is never left by "break".
neverEnoughRemoved(rem, target) == FALSE

\* "if (removed >= cellsToRemove) break", at the head and at the foot of the
\* loop body.
enoughRemoved(rem, target) == rem >= target

\* One turn of the removal loop: the cell is emptied, and filled again if
\* the puzzle has lost its unique solution.
CarveTry ==
    /\ carveState = "loop"
    /\ carveIdx <= Len(positions)
    /\ ~enoughRemoved(removed, cellsToRemove)
    /\ LET row == positions[carveIdx][1]
           col == positions[carveIdx][2]
           cleared == SetCell(puzzle, row, col, 0)
       IN  IF hasUniqueSolution(cleared)
           THEN puzzle' = cleared /\ removed' = removed + 1
           ELSE UNCHANGED <<puzzle, removed>>
    /\ carveIdx' = carveIdx + 1
    /\ UNCHANGED <<carveSolution, positions, cellsToRemove, carveState>>

\* The loop ends, by "break" or with the positions used up, and puzzle is
\* returned.
CarveReturn ==
    /\ carveState = "loop"
    /\ carveIdx > Len(positions) \/ enoughRemoved(removed, cellsToRemove)
    /\ carveState' = "returned"
    /\ UNCHANGED <<carveSolution, puzzle, positions, carveIdx, removed,
                   cellsToRemove>>

\* generateLogicalSudoku is not running.
CarveIdle ==
    /\ carveSolution = Sol
    /\ puzzle = Sol
    /\ positions = <<>>
    /\ carveIdx = 1
    /\ removed = 0
    /\ cellsToRemove = 0
    /\ carveState = "idle"

\* generateLogicalSudoku has copied the solution and shuffled the positions.
CarveInit ==
    /\ carveSolution \in CarveSolutions
    /\ puzzle = carveSolution
    /\ positions \in CarveShuffles
    /\ carveIdx = 1
    /\ removed = 0
    /\ cellsToRemove \in {(N * N) - f : f \in CarveFilledCells}
    /\ carveState = "loop"

\* ------------------------------------------------- handlers in turns ----
\* The requests the clients send while others are in flight.
AsyncNumberInputs ==
    ({1} \X {<<0, 1>>} \X {2, 4}) \cup ({2} \X {<<1, 0>>} \X {2, 4})
AsyncNoteInputs == {<<2, <<1, 0>>, {2, 4}>>}

NoRequest ==
    [op |-> "none", playerId |-> 0, row |-> 0, col |-> 0,
     moveType |-> "none", value |-> null, notes |-> {}]

NoMove ==
    [id |-> 0, playerId |-> 0, row |-> 0, col |-> 0, value |-> null,
     notes |-> {}, moveType |-> "none", isCorrect |-> TRUE,
     previousValue |-> null, previousNotes |-> {},
     previousIncorrect |-> FALSE]

\* The fields of the Room object in MemStorage.rooms that updateRoom
\* replaces.  The rows of board and incorrectCells and the array notes are
\* shared by every Room object of a deal and are written in place.
RoomObject ==
    [lockedCells |-> lockedCells, errors |-> errors,
     isGameOver |-> isGameOver, isWon |-> isWon, totalMoves |-> totalMoves,
     gameEndedAt |-> gameEndedAt]

NoRoom ==
    [lockedCells |-> NoIncorrect, errors |-> 0, isGameOver |-> FALSE,
     isWon |-> FALSE, totalMoves |-> 0, gameEndedAt |-> null]

NoLocals ==
    [isCorrect |-> TRUE, newErrors |-> 0, newLockedCells |-> NoIncorrect,
     isWon |-> FALSE, isGameOver |-> FALSE, totalMoves |-> 0,
     originalNotes |-> {}, lastMove |-> NoMove]

\* The room and the move log, as one value.
RoomAndLog ==
    [board |-> board, notes |-> notes, incorrectCells |-> incorrectCells,
     lockedCells |-> lockedCells, errors |-> errors,
     isGameOver |-> isGameOver, isWon |-> isWon, totalMoves |-> totalMoves,
     gameEndedAt |-> gameEndedAt, moves |-> moves,
     currentMoveId |-> currentMoveId]

Quiescent == rpc = "idle" /\ \A p \in Players : pc[p] = "idle"

\* The handlers touch neither the puzzle library's runs nor the history.
AsyncFrame == UNCHANGED <<dealt, last, genVars, carveVars, engineVars>>

\* A move or an undo of player p begins: one per player until all the
\* requests in flight have been answered.
Begins(p, rq) ==
    /\ pc[p] = "idle"
    /\ \A i \in 1 .. Len(started) : started[i].playerId # p
    /\ IF Quiescent
       THEN start' = RoomAndLog /\ started' = <<rq>>
       ELSE start' = start /\ started' = Append(started, rq)
    /\ req' = [req EXCEPT ![p] = rq]
    /\ room' = [room EXCEPT ![p] = RoomObject]

\* The request of player p is answered.
Answered(p) ==
    /\ pc' = [pc EXCEPT ![p] = "idle"]
    /\ req' = [req EXCEPT ![p] = NoRequest]
    /\ room' = [room EXCEPT ![p] = NoRoom]
    /\ tmp' = [tmp EXCEPT ![p] = NoLocals]

\* POST moves up to "await storage.getGameState": the Room object is read.
MoveBegin(p, row, col, moveType, value, n) ==
    /\ AsyncFrame
    /\ currentMoveId
          + Cardinality({q \in Players : pc[q] \in {"m1", "m2", "m3"}})
          <= MaxMoves
    /\ Begins(p, [op |-> "move", playerId |-> p, row |-> row, col |-> col,
                  moveType |-> moveType, value |-> value, notes |-> n])
    /\ pc' = [pc EXCEPT ![p] = "m1"]
    /\ UNCHANGED <<roomVars, storeVars, tmp, rpc, rroom>>

\* From there to "await storage.getRecentMoves": the guards, the writes
\* into the shared grids, and what is computed for updateRoom.
MoveApply(p) ==
    /\ AsyncFrame
    /\ pc[p] = "m1"
    /\ LET rq == req[p]
       IN  IF moveRejected(room[p].isGameOver, room[p].lockedCells,
                           rq.row, rq.col)
           THEN /\ Answered(p)
                /\ UNCHANGED <<roomVars, storeVars>>
           ELSE LET isCorrect == moveIsCorrect(solution, rq.row, rq.col,
                                               rq.moveType, rq.value)
                    newBoard == boardAfterMove(board, rq.row, rq.col,
                                               rq.moveType, rq.value)
                    newErrors == errorsAfterMove(room[p].errors, rq.moveType,
                                                 rq.value, isCorrect)
                    won == isPuzzleCompleted(newBoard, solution)
                IN  /\ board' = newBoard
                    /\ notes' = notesAfterMove(notes, rq.row, rq.col,
                                               rq.moveType, rq.value,
                                               rq.notes, isCorrect)
                    /\ incorrectCells' =
                          incorrectAfterMove(incorrectCells, rq.row, rq.col,
                                             rq.moveType, rq.value, isCorrect)
                    /\ tmp' = [tmp EXCEPT ![p] =
                          [isCorrect |-> isCorrect,
                           newErrors |-> newErrors,
                           newLockedCells |->
                               getAutoLockCells(newBoard,
                                                room[p].lockedCells),
                           isWon |-> won,
                           isGameOver |-> gameOverAfterMove(newErrors, won),
                           totalMoves |-> Len(moves) + 1,
                           originalNotes |-> notes[rq.row][rq.col],
                           lastMove |-> NoMove]]
                    /\ pc' = [pc EXCEPT ![p] = "m2"]
                    /\ UNCHANGED <<solution, lockedCells, errors, isGameOver,
                                   isWon, totalMoves, gameEndedAt, storeVars,
                                   req, room>>
    /\ UNCHANGED <<rpc, rroom, start, started>>

\* storage.updateRoom(room.id, updateData).
MoveUpdateRoom(p) ==
    /\ AsyncFrame
    /\ pc[p] = "m2"
    /\ lockedCells' = tmp[p].newLockedCells
    /\ errors' = tmp[p].newErrors
    /\ isGameOver' = tmp[p].isGameOver
    /\ isWon' = tmp[p].isWon
    /\ totalMoves' = tmp[p].totalMoves
    /\ gameEndedAt' = endTimeAfterMove(gameEndedAt, room[p].isGameOver,
                                       tmp[p].isGameOver, currentMoveId)
    /\ pc' = [pc EXCEPT ![p] = "m3"]
    /\ UNCHANGED <<board, solution, notes, incorrectCells, storeVars, req,
                   room, tmp, rpc, rroom, start, started>>

\* insertMoveSchema.parse(...), storage.createMove and the answer.  The
\* rows of originalBoard and originalIncorrectCells are the shared rows.
MoveRecord(p) ==
    /\ AsyncFrame
    /\ pc[p] = "m3"
    /\ moves' = Append(moves,
          moveRecord(currentMoveId, p, req[p].row, req[p].col,
                     req[p].moveType, req[p].value, req[p].notes,
                     tmp[p].isCorrect,
                     [board |-> board,
                      notes |-> SetCell(notes, req[p].row, req[p].col,
                                        tmp[p].originalNotes),
                      incorrectCells |-> incorrectCells]))
    /\ currentMoveId' = currentMoveId + 1
    /\ Answered(p)
    /\ UNCHANGED <<roomVars, rpc, rroom, start, started>>

\* POST undo up to "await storage.getGameState".
UndoBegin(p) ==
    /\ AsyncFrame
    /\ Begins(p, [op |-> "undo", playerId |-> p, row |-> 0, col |-> 0,
                  moveType |-> "none", value |-> null, notes |-> {}])
    /\ pc' = [pc EXCEPT ![p] = "u1"]
    /\ UNCHANGED <<roomVars, storeVars, tmp, rpc, rroom>>

\* The game-over guard and the call of storage.getLastPlayerMove.
UndoLookup(p) ==
    /\ AsyncFrame
    /\ pc[p] = "u1"
    /\ IF room[p].isGameOver
       THEN Answered(p)
       ELSE LET i == getLastPlayerMove(moves, p)
            IN  /\ tmp' = [tmp EXCEPT ![p].lastMove =
                              IF i = 0 THEN NoMove ELSE moves[i]]
                /\ pc' = [pc EXCEPT ![p] = "u2"]
                /\ UNCHANGED <<req, room>>
    /\ UNCHANGED <<roomVars, storeVars, rpc, rroom, start, started>>

\* The no-move guard, the writes into the shared grids and the call of
\* storage.deleteMove.
UndoRestore(p) ==
    /\ AsyncFrame
    /\ pc[p] = "u2"
    /\ IF tmp[p].lastMove = NoMove
       THEN /\ Answered(p)
            /\ UNCHANGED <<roomVars, storeVars>>
       ELSE /\ board' = boardAfterUndo(board, tmp[p].lastMove)
            /\ notes' = notesAfterUndo(notes, tmp[p].lastMove)
            /\ incorrectCells' =
                  incorrectAfterUndo(incorrectCells, tmp[p].lastMove)
            /\ moves' = deleteMove(moves, tmp[p].lastMove.id)
            /\ pc' = [pc EXCEPT ![p] = "u3"]
            /\ UNCHANGED <<solution, lockedCells, errors, isGameOver, isWon,
                           totalMoves, gameEndedAt, currentMoveId, req, room,
                           tmp>>
    /\ UNCHANGED <<rpc, rroom, start, started>>

\* getAutoLockCells, storage.updateRoom and the answer.
UndoUpdateRoom(p) ==
    /\ AsyncFrame
    /\ pc[p] = "u3"
    /\ lockedCells' = lockedAfterUndo(board)
    /\ errors' = errorsAfterUndo(room[p].errors, tmp[p].lastMove)
    /\ Answered(p)
    /\ UNCHANGED <<board, solution, notes, incorrectCells, isGameOver, isWon,
                   totalMoves, gameEndedAt, storeVars, rpc, rroom, start,
                   started>>

\* GET state up to "await storage.getGameState".
ReadBegin ==
    /\ AsyncFrame
    /\ rpc = "idle"
    /\ rpc' = "r1"
    /\ rroom' = RoomObject
    /\ IF Quiescent
       THEN start' = RoomAndLog /\ started' = <<>>
       ELSE UNCHANGED <<start, started>>
    /\ UNCHANGED <<roomVars, storeVars, pc, req, room, tmp>>

\* What res.json(gameState) sends of the room: the fields of the Room
\* object it holds, and the grids as they are when it is serialized.
readResponse ==
    [board |-> board, notes |-> notes, incorrectCells |-> incorrectCells,
     lockedCells |-> rroom.lockedCells, errors |-> rroom.errors,
     isGameOver |-> rroom.isGameOver, isWon |-> rroom.isWon]

ReadAnswer ==
    /\ AsyncFrame
    /\ rpc = "r1"
    /\ rpc' = "idle"
    /\ rroom' = NoRoom
    /\ UNCHANGED <<roomVars, storeVars, pc, req, room, tmp, start, started>>

\* The move handler run from request to answer with no other request in
\* between, on the room and move log st.
moveAlone(st, rq) ==
    IF moveRejected(st.isGameOver, st.lockedCells, rq.row, rq.col) THEN st
    ELSE LET isCorrect == moveIsCorrect(solution, rq.row, rq.col,
                                        rq.moveType, rq.value)
             newBoard == boardAfterMove(st.board, rq.row, rq.col,
                                        rq.moveType, rq.value)
             newIncorrect == incorrectAfterMove(st.incorrectCells, rq.row,
                                                rq.col, rq.moveType,
                                                rq.value, isCorrect)
             newErrors == errorsAfterMove(st.errors, rq.moveType, rq.value,
                                          isCorrect)
             won == isPuzzleCompleted(newBoard, solution)
             over == gameOverAfterMove(newErrors, won)
         IN  [board |-> newBoard,
              notes |-> notesAfterMove(st.notes, rq.row, rq.col, rq.moveType,
                                       rq.value, rq.notes, isCorrect),
              incorrectCells |-> newIncorrect,
              lockedCells |-> getAutoLockCells(newBoard, st.lockedCells),
              errors |-> newErrors,
              isGameOver |-> over,
              isWon |-> won,
              totalMoves |-> Len(st.moves) + 1,
              gameEndedAt |-> endTimeAfterMove(st.gameEndedAt, st.isGameOver,
                                               over, st.currentMoveId),
              moves |-> Append(st.moves,
                  moveRecord(st.currentMoveId, rq.playerId, rq.row, rq.col,
                             rq.moveType, rq.value, rq.notes, isCorrect,
                             [board |-> newBoard, notes |-> st.notes,
                              incorrectCells |-> newIncorrect])),
              currentMoveId |-> st.currentMoveId + 1]

\* The undo handler run likewise.
undoAlone(st, rq) ==
    IF undoRejected(st.isGameOver, st.moves, rq.playerId) THEN st
    ELSE LET lastMove == st.moves[getLastPlayerMove(st.moves, rq.playerId)]
             newBoard == boardAfterUndo(st.board, lastMove)
         IN  [st EXCEPT
                 !.board = newBoard,
                 !.notes = notesAfterUndo(st.notes, lastMove),
                 !.incorrectCells =
                     incorrectAfterUndo(st.incorrectCells, lastMove),
                 !.moves = deleteMove(st.moves, lastMove.id),
                 !.lockedCells = lockedAfterUndo(newBoard),
                 !.errors = errorsAfterUndo(st.errors, lastMove)]

RECURSIVE runInOrder(_, _)

\* The requests rqs served one after the other.
runInOrder(st, rqs) ==
    IF rqs = <<>> THEN st
    ELSE runInOrder(IF Head(rqs).op = "move" THEN moveAlone(st, Head(rqs))
                    ELSE undoAlone(st, Head(rqs)),
                    Tail(rqs))

\* No request is in flight.
AsyncIdle ==
    /\ pc = [p \in Players |-> "idle"]
    /\ req = [p \in Players |-> NoRequest]
    /\ room = [p \in Players |-> NoRoom]
    /\ tmp = [p \in Players |-> NoLocals]
    /\ rpc = "idle"
    /\ rroom = NoRoom
    /\ start = RoomAndLog
    /\ started = <<>>

\* ------------------------------------------------------ engine calls ----
\* The grid b with the given cells emptied.
Blank(b, cells) ==
    [r \in Idx |-> [c \in Idx |-> IF <<r, c>> \in cells THEN 0 ELSE b[r][c]]]

\* In SolInOrder rows 0 and 3 hold 1 2 / 2 1 in columns 0, 1 and 5 6 / 6 5
\* in columns 4, 5: emptied, each of the two squares can be filled in two
\* ways.
SquareCells == {<<0, 0>>, <<0, 1>>, <<3, 0>>, <<3, 1>>, <<8, 8>>}
TwoSquares ==
    {<<0, 0>>, <<0, 1>>, <<3, 0>>, <<3, 1>>,
     <<0, 4>>, <<0, 5>>, <<3, 4>>, <<3, 5>>}

\* Puzzles cut out of a solution.
CutBoards ==
    {Blank(SolInOrder, cells) : cells \in SUBSET SquareCells}
        \cup {Blank(Sol, cells) : cells \in SUBSET {<<0, 1>>, <<1, 0>>, <<4, 4>>}}

\* Boards without a duplicate in any row, column or box that no filling
\* completes: with (0,0) = 2 and 1 in column 1, cell (0,1) can hold nothing.
DeadBoards ==
    {[Blank(SolInOrder, cells \cup {<<0, 1>>, <<3, 0>>})
         EXCEPT ![0][0] = SolInOrder[0][1]] :
        cells \in SUBSET {<<8, 8>>, <<4, 4>>}}

\* An outcome of the shuffle of generateLogicalSudoku whose first cells
\* are all accepted for removal from SolInOrder.
HardPrefix ==
    << <<0, 3>>, <<0, 5>>, <<3, 1>>, <<3, 4>>, <<4, 1>>, <<4, 5>>, <<5, 2>>,
       <<5, 4>>, <<5, 5>>, <<6, 2>>, <<6, 3>>, <<6, 4>>, <<6, 7>>, <<8, 1>>,
       <<8, 5>>, <<8, 7>> >>

\* The boards POST /api/rooms and new-game deal: generateLogicalSudoku on a
\* solution, a filled-cell target and an outcome of its shuffle.
DealtBoards ==
    {d.board : d \in Deals}
        \cup {generateLogicalSudoku(sol, f, pos) :
                 sol \in CarveSolutions, f \in CarveFilledCells,
                 pos \in CarveShuffles}
        \cup {generateLogicalSudoku(SolInOrder, (N * N) - Len(HardPrefix),
                                    ShuffleFrom(HardPrefix))}

\* A puzzle cut out of SolInOrder that no run of naked singles fills: one
\* hidden single is needed on the way.
HiddenSingleCells ==
    {<<3, 1>>, <<3, 8>>, <<4, 7>>, <<4, 8>>, <<5, 2>>, <<5, 4>>, <<5, 5>>,
     <<6, 2>>, <<6, 4>>, <<6, 7>>, <<7, 4>>, <<7, 8>>, <<8, 1>>, <<8, 5>>,
     <<8, 7>>}

\* The calls made.
ValidMoveBoards == {Sol, SolInOrder, Blank(Sol, {<<0, 1>>, <<1, 0>>, <<4, 4>>})}
UniqueBoards == CutBoards \cup DeadBoards \cup {Blank(SolInOrder, TwoSquares)}
LogicBoards ==
    CutBoards \cup DeadBoards \cup DealtBoards
        \cup {Blank(SolInOrder, HiddenSingleCells)}

\* isValidMove(board, row, col, num) returns isValidPlacement of the same.
IsValidMoveCall ==
    /\ fn = "isValidMove"
    /\ callState = "called"
    /\ result' = isValidPlacement(argBoard, argRow, argCol, argNum)
    /\ callState' = "returned"
    /\ UNCHANGED <<fn, argBoard, argRow, argCol, argNum, workingBoard,
                   changed, solutionCount>>

\* hasUniqueSolution(board): the copy is searched with the counter at 0.
HasUniqueSolutionCall ==
    /\ fn = "hasUniqueSolution"
    /\ callState = "called"
    /\ solutionCount' = countSolutions(argBoard, 0)
    /\ result' = hasUniqueSolution(argBoard)
    /\ callState' = "returned"
    /\ UNCHANGED <<fn, argBoard, argRow, argCol, argNum, workingBoard,
                   changed>>

\* canSolveWithLogic(board) copies the board and enters its while loop.
CanSolveCall ==
    /\ fn = "canSolveWithLogic"
    /\ callState = "called"
    /\ workingBoard' = argBoard
    /\ changed' = TRUE
    /\ callState' = "loop"
    /\ UNCHANGED <<fn, argBoard, argRow, argCol, argNum, solutionCount,
                   result>>

\* One turn of the while loop, which may end in "return false".
CanSolvePass ==
    /\ callState = "loop"
    /\ changed
    /\ LET st == logicPass(workingBoard)
       IN  /\ workingBoard' = st.board
           /\ changed' = st.changed
           /\ IF st.dead
              THEN result' = FALSE /\ callState' = "returned"
              ELSE UNCHANGED <<result, callState>>
    /\ UNCHANGED <<fn, argBoard, argRow, argCol, argNum, solutionCount>>

\* The loop is left and isCompleted(workingBoard) returned.
CanSolveReturn ==
    /\ callState = "loop"
    /\ ~changed
    /\ result' = isCompleted(workingBoard)
    /\ callState' = "returned"
    /\ UNCHANGED <<fn, argBoard, argRow, argCol, argNum, workingBoard,
                   changed, solutionCount>>

\* No call is made.
EngineIdle ==
    /\ fn = "none"
    /\ argBoard = EmptyBoard
    /\ argRow = 0
    /\ argCol = 0
    /\ argNum = 0
    /\ workingBoard = EmptyBoard
    /\ changed = FALSE
    /\ solutionCount = 0
    /\ callState = "idle"
    /\ result = FALSE

\* One of the three functions has just been called.
EngineInit ==
    /\ \/ /\ fn = "isValidMove"
          /\ argBoard \in ValidMoveBoards
          /\ argRow \in Idx
          /\ argCol \in Idx
          /\ argNum \in 1 .. N
       \/ /\ fn = "hasUniqueSolution"
          /\ argBoard \in UniqueBoards
          /\ argRow = 0 /\ argCol = 0 /\ argNum = 0
       \/ /\ fn = "canSolveWithLogic"
          /\ argBoard \in LogicBoards
          /\ argRow = 0 /\ argCol = 0 /\ argNum = 0
    /\ workingBoard = EmptyBoard
    /\ changed = FALSE
    /\ solutionCount = 0
    /\ callState = "called"
    /\ result = FALSE

\* ------------------------------------------------------ specification ----
\* The room as POST /api/rooms creates it.
RoomInit ==
    \E deal \in Deals :
        /\ board = deal.board
        /\ solution = deal.solution
        /\ lockedCells = createLockedCells(deal.board)
        /\ notes = EmptyNotes
        /\ incorrectCells = NoIncorrect
        /\ errors = 0
        /\ isGameOver = FALSE
        /\ isWon = FALSE
        /\ totalMoves = 0
        /\ gameEndedAt = null
        /\ moves = <<>>
        /\ currentMoveId = 1
        /\ dealt = deal.board
        /\ last = Request("deal", TRUE, 0, 0, 0, "none", null, {},
                          NoSnapshot)

Init == RoomInit /\ GenIdle /\ CarveIdle /\ AsyncIdle /\ EngineIdle

NumberMove ==
    \E in \in NumberInputs :
        MakeMove(in[1], in[2][1], in[2][2], "number", in[3], {})

NoteMove ==
    \E in \in NoteInputs :
        MakeMove(in[1], in[2][1], in[2][2], "note", null, in[3])

ClearMove ==
    \E in \in ClearInputs :
        MakeMove(in[1], in[2][1], in[2][2], "clear", null, {})

UndoMove == \E playerId \in Players : Undo(playerId)

NewGameRequest == \E deal \in Deals : NewGame(deal)

Next ==
    \/ NumberMove
    \/ NoteMove
    \/ ClearMove
    \/ UndoMove
    \/ NewGameRequest

Spec == Init /\ [][Next]_vars

RoomUntouched == UNCHANGED <<roomVars, storeVars, dealt, last>>

GenNext ==
    \/ FillCall /\ RoomUntouched
          /\ UNCHANGED <<carveVars, asyncVars, engineVars>>
    \/ FillTry /\ RoomUntouched
          /\ UNCHANGED <<carveVars, asyncVars, engineVars>>
    \/ FillBacktrack /\ RoomUntouched
          /\ UNCHANGED <<carveVars, asyncVars, engineVars>>

InitGen == RoomInit /\ GenInit /\ CarveIdle /\ AsyncIdle /\ EngineIdle

SpecGen == InitGen /\ [][GenNext]_vars

AsyncNext ==
    \/ \E in \in AsyncNumberInputs :
          MoveBegin(in[1], in[2][1], in[2][2], "number", in[3], {})
    \/ \E in \in AsyncNoteInputs :
          MoveBegin(in[1], in[2][1], in[2][2], "note", null, in[3])
    \/ \E p \in Players : MoveApply(p)
    \/ \E p \in Players : MoveUpdateRoom(p)
    \/ \E p \in Players : MoveRecord(p)
    \/ \E p \in Players : UndoBegin(p)
    \/ \E p \in Players : UndoLookup(p)
    \/ \E p \in Players : UndoRestore(p)
    \/ \E p \in Players : UndoUpdateRoom(p)
    \/ ReadBegin
    \/ ReadAnswer

SpecAsync == Init /\ [][AsyncNext]_vars

CarveNext ==
    \/ CarveTry /\ RoomUntouched
          /\ UNCHANGED <<genVars, asyncVars, engineVars>>
    \/ CarveReturn /\ RoomUntouched
          /\ UNCHANGED <<genVars, asyncVars, engineVars>>

InitCarve == RoomInit /\ GenIdle /\ CarveInit /\ AsyncIdle /\ EngineIdle

SpecCarve == InitCarve /\ [][CarveNext]_vars

EngineFrame ==
    UNCHANGED <<roomVars, storeVars, dealt, last, genVars, carveVars,
                asyncVars>>

EngineNext ==
    \/ IsValidMoveCall /\ EngineFrame
    \/ HasUniqueSolutionCall /\ EngineFrame
    \/ CanSolveCall /\ EngineFrame
    \/ CanSolvePass /\ EngineFrame
    \/ CanSolveReturn /\ EngineFrame

InitEngine == RoomInit /\ GenIdle /\ CarveIdle /\ AsyncIdle /\ EngineInit

SpecEngine == InitEngine /\ [][EngineNext]_vars

\* New games that carve other cells than the game before: in the second
\* deal (0,1) is a given and (0,2) is empty.
ReDeals ==
    Deals \cup
    {[solution |-> sol, board |-> generateLogicalSudoku(sol, f, pos)] :
        sol \in Solutions, f \in FilledCells,
        pos \in {ShuffleFrom(<<<<0, 2>>, <<1, 0>>, <<8, 8>>>>)}}

RedealNext ==
    \/ NumberMove
    \/ UndoMove
    \/ \E deal \in ReDeals : NewGame(deal)

SpecRedeal == Init /\ [][RedealNext]_vars

\* Games with pencil marks in and out of the units of the cell played: the
\* deal leaves (0,1), (1,0) and (8,8) empty; (1,0) is in the box of (0,1),
\* (8,8) shares no row, column or box with it.
WideDeals ==
    {[solution |-> sol, board |-> generateLogicalSudoku(sol, f - 1, pos)] :
        sol \in Solutions, f \in FilledCells, pos \in Shuffles}

PlaceInputs == {1} \X {<<0, 1>>} \X {2, 4}
MarkInputs ==
    {<<1, <<0, 1>>, {2, 4}>>, <<2, <<1, 0>>, {2, 4}>>, <<2, <<8, 8>>, {2, 4}>>}

PlaceMove ==
    \E in \in PlaceInputs :
        MakeMove(in[1], in[2][1], in[2][2], "number", in[3], {})

MarkMove ==
    \E in \in MarkInputs :
        MakeMove(in[1], in[2][1], in[2][2], "note", null, in[3])

WideRoomInit ==
    \E deal \in WideDeals :
        /\ board = deal.board
        /\ solution = deal.solution
        /\ lockedCells = createLockedCells(deal.board)
        /\ notes = EmptyNotes
        /\ incorrectCells = NoIncorrect
        /\ errors = 0
        /\ isGameOver = FALSE
        /\ isWon = FALSE
        /\ totalMoves = 0
        /\ gameEndedAt = null
        /\ moves = <<>>
        /\ currentMoveId = 1
        /\ dealt = deal.board
        /\ last = Request("deal", TRUE, 0, 0, 0, "none", null, {},
                          NoSnapshot)

InitNotes ==
    WideRoomInit /\ GenIdle /\ CarveIdle /\ AsyncIdle /\ EngineIdle

NotesNext ==
    \/ PlaceMove
    \/ MarkMove
    \/ UndoMove

SpecNotes == InitNotes /\ [][NotesNext]_vars

\* One game played to its end: moves of every kind and undos, no new game.
OneGameNext ==
    \/ NumberMove
    \/ NoteMove
    \/ ClearMove
    \/ UndoMove

SpecOneGame == Init /\ [][OneGameNext]_vars

\* ------------------------------------------------------ board client ----
\* sudoku-board.tsx: a number counts as completed when it stands on nine
\* cells where the solution has it.
isNumberCompleted(b, sol, number) ==
    Cardinality({cell \in Cells : /\ b[cell[1]][cell[2]] = number
                                  /\ sol[cell[1]][cell[2]] = number}) >= N

\* An input the board component dropped without sending a request.
Dropped(playerId, row, col, numValue) ==
    Request("input", FALSE, playerId, row, col, "number", numValue, {},
            Snapshot(row, col))

\* handleCellChange with pencil mode off and a digit 1..9 entered: the
\* component sees the room as the server holds it, and onCellChange posts
\* the number move.
handleCellChange(playerId, row, col, numValue) ==
    IF \/ isGameOver
       \/ lockedCells[row][col]
       \/ isNumberCompleted(board, solution, numValue)
    THEN /\ last' = Dropped(playerId, row, col, numValue)
         /\ UNCHANGED <<roomVars, storeVars, dealt, otherVars>>
    ELSE IF board[row][col] = numValue
         THEN MakeMove(playerId, row, col, "number", null, {})
         ELSE MakeMove(playerId, row, col, "number", numValue, {})

\* A deal in which (0,1) shares its row and box with the empty (0,2) and its
\* column with the empty (5,1): a digit placed at (0,1) completes no unit.
ClientDeals ==
    {[solution |-> sol, board |-> generateLogicalSudoku(sol, f - 1, pos)] :
        sol \in Solutions, f \in FilledCells,
        pos \in {ShuffleFrom(<<<<0, 1>>, <<0, 2>>, <<5, 1>>>>)}}

KeyInputs == Players \X {<<0, 1>>, <<0, 2>>} \X {2, 3}

KeyPress ==
    \E in \in KeyInputs : handleCellChange(in[1], in[2][1], in[2][2], in[3])

ClientRoomInit ==
    \E deal \in ClientDeals :
        /\ board = deal.board
        /\ solution = deal.solution
        /\ lockedCells = createLockedCells(deal.board)
        /\ notes = EmptyNotes
        /\ incorrectCells = NoIncorrect
        /\ errors = 0
        /\ isGameOver = FALSE
        /\ isWon = FALSE
        /\ totalMoves = 0
        /\ gameEndedAt = null
        /\ moves = <<>>
        /\ currentMoveId = 1
        /\ dealt = deal.board
        /\ last = Request("deal", TRUE, 0, 0, 0, "none", null, {},
                          NoSnapshot)

InitClient ==
    ClientRoomInit /\ GenIdle /\ CarveIdle /\ AsyncIdle /\ EngineIdle

ClientNext ==
    \/ KeyPress
    \/ UndoMove

SpecClient == InitClient /\ [][ClientNext]_vars

\* ------------------------------------------------------------ claims ----
\* The step just taken served an accepted move / an accepted undo.
AcceptedMove == last.op = "move" /\ last.ok
AcceptedUndo == last.op = "undo" /\ last.ok

\* C1: a move accepted in an active room and undone at once by the same
\* player leaves board[cell], notes[cell], incorrectMask[cell] and the error
\* counter as they were before the move.
C1_UndoRoundTrip ==
    [][(/\ AcceptedMove
        /\ ~isGameOver
        /\ last'.op = "undo" /\ last'.ok
        /\ last'.playerId = last.playerId)
       => /\ board'[last.row][last.col] = last.before.value
          /\ notes'[last.row][last.col] = last.before.notes
          /\ incorrectCells'[last.row][last.col] = last.before.incorrect
          /\ errors' = last.before.errors]_vars

\* C2: a move on a terminal room or on a locked cell is never accepted, and
\* a rejected move leaves the grids, the counters, the flags and the move
\* log as they were.
C2_RejectedMoveChangesNothing ==
    [][/\ (last'.op = "move" /\ last'.ok)
            => (~isGameOver /\ ~lockedCells[last'.row][last'.col])
       /\ (last'.op = "move" /\ ~last'.ok)
            => (/\ isGameOver \/ \E cell \in Cells :
                                    lockedCells[cell[1]][cell[2]]
                /\ UNCHANGED <<roomVars, storeVars>>)]_vars

\* A move was rejected in an active room: its target was locked.
C2_Witness ==
    /\ last.op = "move" /\ ~last.ok
    /\ ~isGameOver
    /\ \E cell \in Cells :
          dealt[cell[1]][cell[2]] = 0 /\ lockedCells[cell[1]][cell[2]]

C4_ErrorsGrowOnlyOnWrongDigit ==
    [][errors' > errors
       => (/\ last'.op = "move" /\ last'.ok
           /\ last'.moveType = "number"
           /\ last'.value \in 1 .. N
           /\ last'.value # solution[last'.row][last'.col])]_vars

\* C5: the error counter stays within 0..3 and the room is lost (game over
\* and not won) exactly when the counter is 3.
C5_LostIffThreeErrors ==
    /\ errors \in 0 .. MaxErrors
    /\ (isGameOver /\ ~isWon) <=> (errors = MaxErrors)

\* The room was lost by a third wrong digit.
C5_Witness ==
    /\ AcceptedMove
    /\ isGameOver /\ ~isWon
    /\ errors = MaxErrors
    /\ last.before.errors = MaxErrors - 1

\* C6: the room is won exactly when the board equals the solution.
C6_WonIffBoardIsSolution ==
    isWon <=> (\A cell \in Cells :
                  board[cell[1]][cell[2]] = solution[cell[1]][cell[2]])

\* C7: once the room is game over, a move or an undo is rejected and
\* changes neither the room nor the move log, and only a new game leaves
\* the terminal state.
C7_TerminalIsOneWay ==
    [][isGameOver
       => /\ (last'.op \in {"move", "undo"})
               => (~last'.ok /\ UNCHANGED <<roomVars, storeVars>>)
          /\ (last'.op # "newGame")
               => (isGameOver' /\ isWon' = isWon)]_vars

\* An undo was refused in a terminal room that holds a move of each player.
C7_Witness ==
    /\ isGameOver
    /\ last.op = "undo" /\ ~last.ok
    /\ \A p \in Players : getLastPlayerMove(moves, p) # 0

\* C8: a move, accepted or rejected, never unlocks a locked cell.
C8_AutoLockMonotone ==
    [][last'.op = "move"
       => \A cell \in Cells :
             lockedCells[cell[1]][cell[2]] => lockedCells'[cell[1]][cell[2]]]_vars

\* A note was taken while a cell that a player filled was locked and a
\* locked given lay in no complete row, column or box.
C8_Witness ==
    /\ AcceptedMove
    /\ last.moveType = "note"
    /\ \E cell \in Cells :
          /\ cell # <<last.row, last.col>>
          /\ dealt[cell[1]][cell[2]] = 0
          /\ lockedCells[cell[1]][cell[2]]
    /\ \E cell \in Cells :
          /\ dealt[cell[1]][cell[2]] # 0
          /\ lockedCells[cell[1]][cell[2]]
          /\ ~isRowComplete(board, cell[1])
          /\ ~isColumnComplete(board, cell[2])
          /\ ~isBlockComplete(board, cell[1] \div BoxSize, cell[2] \div BoxSize)

\* C9: every locked cell holds its solution value.
C9_LockedCellsAreCorrect ==
    \A cell \in Cells :
        lockedCells[cell[1]][cell[2]]
            => board[cell[1]][cell[2]] = solution[cell[1]][cell[2]]

\* C10: after an accepted undo the locked cells are exactly the givens and
\* the cells of the units that are complete in the restored board.
C10_UndoLocksGivensAndCompleteUnits ==
    [][(last'.op = "undo" /\ last'.ok)
       => lockedCells' = getAutoLockCells(board', createLockedCells(dealt))]_vars

\* C11: a move or an undo never changes the board value of a cell that is
\* locked when the request is served.
C11_LockedCellImmutable ==
    [][last'.op \in {"move", "undo"}
       => \A cell \in Cells :
             lockedCells[cell[1]][cell[2]]
                => board'[cell[1]][cell[2]] = board[cell[1]][cell[2]]]_vars

\* C12: a cell that holds a value carries no notes.
C12_NotesOnlyOnEmptyCells ==
    \A cell \in Cells :
        board[cell[1]][cell[2]] # 0 => notes[cell[1]][cell[2]] = {}

\* C13: a cell is marked incorrect exactly when it holds a value that
\* differs from the solution's.
C13_IncorrectMaskIsExact ==
    \A cell \in Cells :
        incorrectCells[cell[1]][cell[2]]
            <=> (/\ board[cell[1]][cell[2]] # 0
                 /\ board[cell[1]][cell[2]] # solution[cell[1]][cell[2]])

\* C14: a new game leaves the error counter at 0, the game-over and won
\* flags false, the end time cleared, the notes and the incorrect mask empty
\* and the move log empty; an undo served right after it is rejected and
\* changes neither the room nor the move log.
C14_NewGameResetsRoomAndLog ==
    [][/\ (last'.op = "newGame")
            => (/\ errors' = 0
                /\ ~isGameOver' /\ ~isWon'
                /\ gameEndedAt' = null
                /\ notes' = EmptyNotes
                /\ incorrectCells' = NoIncorrect
                /\ moves' = <<>>)
       /\ (last.op = "newGame" /\ last'.op = "undo")
            => (~last'.ok /\ UNCHANGED <<roomVars, storeVars>>)]_vars

\* C17: an undo is accepted only in a room that is not game over and for a
\* player who has a record in the move log; a rejected undo leaves the
\* room and the move log as they were.
C17_RejectedUndoChangesNothing ==
    [][last'.op = "undo"
       => /\ last'.ok
               => (/\ ~isGameOver
                   /\ \E i \in 1 .. Len(moves) :
                         moves[i].playerId = last'.playerId)
          /\ ~last'.ok => UNCHANGED <<roomVars, storeVars>>]_vars

\* An undo was refused in an active room whose log holds only records of
\* the other player.
C17_Witness ==
    /\ last.op = "undo" /\ ~last.ok
    /\ ~isGameOver
    /\ moves # <<>>
    /\ \E p \in Players : \A i \in 1 .. Len(moves) : moves[i].playerId # p

\* C18: an accepted undo removes from the move log exactly the requesting
\* player's most recent record, and lowers the error counter by exactly 1
\* if that record is marked incorrect and not at all otherwise.
C18_UndoRemovesOneRecord ==
    [][(last'.op = "undo" /\ last'.ok)
       => \E i \in 1 .. Len(moves) :
             /\ moves[i].playerId = last'.playerId
             /\ \A j \in (i + 1) .. Len(moves) :
                   moves[j].playerId # last'.playerId
             /\ moves' = [k \in 1 .. (Len(moves) - 1) |->
                             IF k < i THEN moves[k] ELSE moves[k + 1]]
             /\ errors' = errors - (IF moves[i].isCorrect THEN 0 ELSE 1)]_vars

\* Every row, every column and every 3x3 box holds each of 1..9.
IsValidSolution(b) ==
    /\ \A r \in Idx : {b[r][c] : c \in Idx} = 1 .. N
    /\ \A c \in Idx : {b[r][c] : r \in Idx} = 1 .. N
    /\ \A p \in {0, BoxSize, 2 * BoxSize} \X {0, BoxSize, 2 * BoxSize} :
          {b[q[1]][q[2]] : q \in BoxOf(p[1], p[2])} = 1 .. N

\* Where the search stands: per activation the turn of its loop, with the
\* stage of the turn (0 testing, 1 in the inner call, 2 back from it,
\* 3 returned true), below the stage of generateSudoku itself.
SearchRank ==
    LET stage == CASE genState = "loop"   -> 0
                   [] genState = "back"   -> 2
                   [] genState = "filled" -> 3
                   [] OTHER               -> 1
        root == IF genFrames # <<>> THEN 1
                ELSE IF genState = "failed" THEN 2 ELSE stage
    IN  <<root>> \o
        [i \in 1 .. Len(genFrames) |->
            ((N + 1) * genFrames[i].k)
                + (IF i = Len(genFrames) THEN stage ELSE 1)]

\* a comes before b in the lexicographic order (a prefix comes first).
LexLess(a, b) ==
    LET common == 1 .. (IF Len(a) <= Len(b) THEN Len(a) ELSE Len(b))
        differ == {i \in common : a[i] # b[i]}
    IN  IF differ = {} THEN Len(a) < Len(b)
        ELSE LET first == CHOOSE i \in differ : \A j \in differ : i <= j
             IN  a[first] < b[first]

\* C19: generateSudoku terminates on a valid full grid whatever the
\* shuffles give: every step moves the search strictly forward in the
\* lexicographic order of its turns (at most 81 activations of 10 turns, so
\* the steps run out), a step is possible until fillBoard has returned,
\* fillBoard never returns false to generateSudoku, and when it returns true
\* every row, column and box of the grid holds each of 1..9 exactly once.
C19_GenerateSudokuFillsValidGrid ==
    /\ [][LexLess(SearchRank, SearchRank')]_vars
    /\ [](genState \in {"call", "loop", "back"} => ENABLED GenNext)
    /\ [](genState # "failed")
    /\ [](genState = "filled" => IsValidSolution(genBoard))

\* fillBoard has returned true after some activation had returned false,
\* on a grid whose first number is not the first of 1..9.
C19_Witness ==
    /\ genState = "filled"
    /\ genBacktracked
    /\ genBoard[0][0] # 1
    /\ isCompleted(genBoard)

\* The grid p with its empty cells filled as f says.
Filled(p, f) ==
    [r \in Idx |-> [c \in Idx |->
        IF p[r][c] = 0 THEN f[<<r, c>>] ELSE p[r][c]]]

\* The completions of p: the valid full grids that agree with p on its
\* non-empty cells.
Completions(p) ==
    LET holes == {cell \in Cells : p[cell[1]][cell[2]] = 0}
        missing == [h \in holes |->
                       (1 .. N) \ ({p[h[1]][c] : c \in Idx}
                                   \cup {p[r][h[2]] : r \in Idx}
                                   \cup {p[q[1]][q[2]] : q \in BoxOf(h[1], h[2])})]
    IN  {Filled(p, f) :
            f \in {g \in [holes -> 1 .. N] :
                      /\ \A h \in holes : g[h] \in missing[h]
                      /\ IsValidSolution(Filled(p, g))}}

\* C20: the puzzle generateLogicalSudoku returns has exactly one
\* completion under the Sudoku constraints, and it is the solution the
\* puzzle was carved from.
C20_CarvedPuzzleHasOneCompletion ==
    carveState = "returned" => Completions(puzzle) = {carveSolution}

\* A puzzle was returned with all the removals asked for, after a removal
\* had been undone because it left more than one completion.
C20_Witness ==
    /\ carveState = "returned"
    /\ cellsToRemove = MaxCarved
    /\ removed = cellsToRemove
    /\ carveIdx - 1 > removed
    /\ Cardinality({cell \in Cells : puzzle[cell[1]][cell[2]] = 0}) = removed

\* The grids, the lock mask, the error counter and the flags of a room.
RoomView(st) ==
    [board |-> st.board, notes |-> st.notes,
     incorrectCells |-> st.incorrectCells, lockedCells |-> st.lockedCells,
     errors |-> st.errors, isGameOver |-> st.isGameOver, isWon |-> st.isWon]

\* The orders in which at most two requests can be served one by one.
SerialOrders(rqs) ==
    IF Len(rqs) = 2 THEN {rqs, <<rqs[2], rqs[1]>>} ELSE {rqs}

\* C15: when the moves and undos that were in flight together have all been
\* answered, the room is as if they had been served one after the other in
\* some order: no update of the board, the notes, the incorrect mask, the
\* lock mask, the error counter or the flags is lost.
C15_RequestsInFlightSerialize ==
    (started # <<>> /\ \A p \in Players : pc[p] = "idle")
        => \E rqs \in SerialOrders(started) :
              RoomView(RoomAndLog) = RoomView(runInOrder(start, rqs))

\* C16: a state request answered while at most one move or undo has begun
\* sends the room either as it was before that request or as it is after
\* it.
C16_ReadSeesBeforeOrAfter ==
    [][(rpc = "r1" /\ rpc' = "idle" /\ Len(started) <= 1)
       => readResponse \in {RoomView(start),
                            RoomView(runInOrder(start, started))}]_vars

\* C21: canSolveWithLogic returns true for every board dealt to a room:
\* naked and hidden singles alone fill all 81 cells of it.
C21_DealtPuzzleSolvableByLogic ==
    (fn = "canSolveWithLogic" /\ callState = "returned"
        /\ argBoard \in DealtBoards)
        => result = TRUE

\* The cells that share the row, the column or the box of (row, col), the
\* cell itself left out.
Peers(row, col) ==
    ({<<row, c>> : c \in Idx} \cup {<<r, col>> : r \in Idx}
        \cup BoxOf(row, col)) \ {<<row, col>>}

\* C22: isValidPlacement(grid, row, col, value) with value in 1..9 returns
\* false exactly when value stands in another cell of the row, the column
\* or the box of (row, col); a value that stands only at (row, col) itself
\* is no conflict.
C22_IsValidPlacementLooksElsewhere ==
    (fn = "isValidMove" /\ callState = "returned")
        => (result <=> \A p \in Peers(argRow, argCol) :
                          argBoard[p[1]][p[2]] # argNum)

\* The cells of p that are not empty.
NonEmpty(p) == {cell \in Cells : p[cell[1]][cell[2]] # 0}

C24_GivensStayLocked ==
    /\ last.op \in {"deal", "newGame"}
          => \A cell \in Cells :
                lockedCells[cell[1]][cell[2]] <=> dealt[cell[1]][cell[2]] # 0
    /\ \A cell \in Cells :
          dealt[cell[1]][cell[2]] # 0
              => /\ lockedCells[cell[1]][cell[2]]
                 /\ board[cell[1]][cell[2]] = dealt[cell[1]][cell[2]]
                 /\ dealt[cell[1]][cell[2]] = solution[cell[1]][cell[2]]

\* C25: the record of an accepted move carries the target cell as it was
\* just before the move: its board value (null if it was empty), its notes
\* and its incorrect flag.
C25_MoveRecordHoldsPriorCell ==
    [][(last'.op = "move" /\ last'.ok)
       => LET m == moves'[Len(moves')]
              row == last'.row
              col == last'.col
          IN  /\ Len(moves') = Len(moves) + 1
              /\ m.row = row /\ m.col = col
              /\ m.previousValue =
                    (IF board[row][col] = 0 THEN null ELSE board[row][col])
              /\ m.previousNotes = notes[row][col]
              /\ m.previousIncorrect = incorrectCells[row][col]]_vars

\* The empty cells of b, and the numbers that stand in no other cell of
\* the row, the column or the box of a cell.
Empties(b) == {cell \in Cells : b[cell[1]][cell[2]] = 0}
Candidates(b, cell) ==
    (1 .. N) \ {b[p[1]][p[2]] : p \in Peers(cell[1], cell[2])}

\* The 27 units.
Units ==
    {{<<r, c>> : c \in Idx} : r \in Idx}
        \cup {{<<r, c>> : r \in Idx} : c \in Idx}
        \cup {BoxOf(p[1], p[2]) :
                 p \in {0, BoxSize, 2 * BoxSize} \X {0, BoxSize, 2 * BoxSize}}

\* The deductions open on b: an empty cell with one candidate takes it (naked
\* single); a number with one place among the empty cells of a unit goes
\* there (hidden single).
NakedSingleMoves(b) ==
    {<<cell, v>> \in Empties(b) \X (1 .. N) : Candidates(b, cell) = {v}}
HiddenSingleMoves(b) ==
    {<<cell, v>> \in Empties(b) \X (1 .. N) :
        /\ v \in Candidates(b, cell)
        /\ \E u \in Units :
              /\ cell \in u
              /\ \A q \in (u \cap Empties(b)) \ {cell} :
                    v \notin Candidates(b, q)}
DeadCells(b) == {cell \in Empties(b) : Candidates(b, cell) = {}}

RECURSIVE Deduce(_)

\* Whether deductions taken one at a time, in any order, fill b: false at a
\* cell without candidates, and otherwise whether no cell is empty when no
\* deduction is left.
Deduce(b) ==
    IF DeadCells(b) # {} THEN FALSE
    ELSE LET open == NakedSingleMoves(b) \cup HiddenSingleMoves(b)
         IN  IF open = {} THEN Empties(b) = {}
             ELSE LET m == CHOOSE x \in open : TRUE
                  IN  Deduce(SetCell(b, m[1][1], m[1][2], m[2]))

\* C26: canSolveWithLogic terminates (a turn of its loop that sets changed
\* fills at least one more cell, and a turn that does not is the last); a
\* turn begun on a board with an empty cell without candidates returns false
\* and a turn returns false only at such a cell; when the loop is left no
\* naked and no hidden single is open on the working grid and the result is
\* whether that grid has no empty cell, which is what deductions taken one
\* by one give for the puzzle; the puzzle passed in is not modified.
C26_CanSolveWithLogicIsSinglesFixpoint ==
    /\ [][fn = "canSolveWithLogic"
          => /\ argBoard' = argBoard
             /\ (callState = "loop" /\ callState' = "loop" /\ changed')
                   => Cardinality(Empties(workingBoard'))
                         < Cardinality(Empties(workingBoard))
             /\ (callState = "loop" /\ ~changed)
                   => (callState' = "returned" /\ workingBoard' = workingBoard)
             /\ (callState = "loop" /\ changed
                    /\ DeadCells(workingBoard) # {})
                   => (callState' = "returned" /\ result' = FALSE)
             /\ (callState = "loop" /\ changed /\ callState' = "returned")
                   => (result' = FALSE /\ DeadCells(workingBoard') # {})]_vars
    /\ []((fn = "canSolveWithLogic" /\ callState = "called")
            => ENABLED (CanSolveCall /\ EngineFrame))
    /\ []((fn = "canSolveWithLogic" /\ callState = "loop" /\ ~changed)
            => ENABLED (CanSolveReturn /\ EngineFrame))
    /\ []((fn = "canSolveWithLogic" /\ callState = "returned")
            => /\ result = Deduce(argBoard)
               /\ \A cell \in Cells \ Empties(argBoard) :
                     workingBoard[cell[1]][cell[2]] = argBoard[cell[1]][cell[2]]
               /\ IF DeadCells(workingBoard) # {} THEN result = FALSE
                  ELSE /\ NakedSingleMoves(workingBoard) = {}
                       /\ HiddenSingleMoves(workingBoard) = {}
                       /\ result = (Empties(workingBoard) = {}))

\* canSolveWithLogic has returned true for a puzzle on which no naked
\* single was open at some cell it had to fill by a hidden single.
C26_Witness ==
    /\ fn = "canSolveWithLogic"
    /\ callState = "returned"
    /\ result
    /\ Empties(workingBoard) = {}
    /\ \E m \in HiddenSingleMoves(argBoard) : m \notin NakedSingleMoves(argBoard)

\* The completions of p, each built from one candidate per empty cell: the
\* full grids that agree with p where p is not empty and hold each of 1..9
\* in every row, column and box.
CompletionsByChoice(p) ==
    LET options == {<<cell, v>> \in Empties(p) \X (1 .. N) :
                       v \in Candidates(p, cell)}
        choices == {ch \in SUBSET options :
                       \A cell \in Empties(p) :
                          Cardinality({o \in ch : o[1] = cell}) = 1}
        fill(ch) == [r \in Idx |-> [c \in Idx |->
                        IF p[r][c] # 0 THEN p[r][c]
                        ELSE (CHOOSE o \in ch : o[1] = <<r, c>>)[2]]]
    IN  {fill(ch) : ch \in {x \in choices : IsValidSolution(fill(x))}}

\* C27: hasUniqueSolution returns true exactly when the grid has one
\* completion under the row, column and box constraints, false when it has
\* none and when it has two or more; its counter stops at 2; the grid passed
\* in is not modified.
C27_HasUniqueSolutionCountsCompletions ==
    /\ [][fn = "hasUniqueSolution" => argBoard' = argBoard]_vars
    /\ []((fn = "hasUniqueSolution" /\ callState = "returned")
            => LET n == Cardinality(CompletionsByChoice(argBoard))
               IN  /\ result = (n = 1)
                   /\ solutionCount = (IF n >= 2 THEN 2 ELSE n))

\* hasUniqueSolution has returned false with its counter at 2 for a grid
\* that has more than two completions.
C27_Witness ==
    /\ fn = "hasUniqueSolution"
    /\ callState = "returned"
    /\ ~result
    /\ solutionCount = 2
    /\ Cardinality(CompletionsByChoice(argBoard)) > 2

\* The cells that share the row, the column or the box of (row, col).
InUnitsOf(row, col) == {cell \in Cells : cell[1] = row \/ cell[2] = col} \cup BoxOf(row, col)

\* C28: after an accepted number move that places the correct digit v at
\* (r,c), no cell of row r, column c or the box of (r,c) has v in its notes;
\* the notes of every cell outside these units are unchanged, and so are the
\* notes other than v of the other cells inside them.
C28_CorrectDigitLeavesPeerNotes ==
    [][(/\ AcceptedMove'
        /\ last'.moveType = "number"
        /\ last'.value \notin {null, 0}
        /\ last'.value = solution[last'.row][last'.col])
       => LET r == last'.row
              c == last'.col
              v == last'.value
          IN  \A cell \in Cells :
                 LET before == notes[cell[1]][cell[2]]
                     after == notes'[cell[1]][cell[2]]
                 IN  /\ cell \in InUnitsOf(r, c) => v \notin after
                     /\ cell \notin InUnitsOf(r, c) => after = before
                     /\ (cell \in InUnitsOf(r, c) /\ cell # <<r, c>>)
                            => after = before \ {v}]_vars

\* The correct digit 2 has just been placed at (0,1): the note of 2 is gone
\* from (1,0) in its box, where 4 is still noted, and (8,8) outside its units
\* still notes 2.
C28_Witness ==
    /\ AcceptedMove
    /\ last.moveType = "number"
    /\ <<last.row, last.col>> = <<0, 1>>
    /\ last.value = solution[0][1]
    /\ notes[1][0] = {4}
    /\ 2 \in notes[8][8]

\* C29: an accepted number move whose digit is not the solution's removes no
\* note from any cell of the room, the cell played included.
C29_WrongDigitKeepsNotes ==
    [][(/\ AcceptedMove'
        /\ last'.moveType = "number"
        /\ last'.value \notin {null, 0}
        /\ last'.value # solution[last'.row][last'.col])
       => \A cell \in Cells :
             notes[cell[1]][cell[2]] \subseteq notes'[cell[1]][cell[2]]]_vars

\* The record an undo has just deleted.
Undone == CHOOSE m \in {moves[i] : i \in 1 .. Len(moves)} : \A j \in 1 .. Len(moves') : moves'[j].id # m.id

\* C30: an accepted undo writes the notes of the undone move's cell only,
\* putting back the notes recorded for it; the notes of every other cell are
\* left as they are, so that a digit stripped from them by the correct
\* placement now undone is still missing.
C30_UndoLeavesPeerNotesStripped ==
    [][AcceptedUndo'
       => /\ notes'[Undone.row][Undone.col] = Undone.previousNotes
          /\ \A cell \in Cells \ {<<Undone.row, Undone.col>>} :
                notes'[cell[1]][cell[2]] = notes[cell[1]][cell[2]]]_vars

\* Player 2 noted {2,4} at (1,0) and did nothing else; player 1 has just
\* undone the last move they had, the correct digit at (0,1) that took the 2
\* out of that note: (1,0) still lacks the 2.
C30_Witness ==
    /\ AcceptedUndo
    /\ last.playerId = 1
    /\ Len(moves) = 1
    /\ notes[1][0] = {4}
    /\ \E i \in 1 .. Len(moves) :
          /\ moves[i].playerId = 2
          /\ <<moves[i].row, moves[i].col>> = <<1, 0>>
          /\ moves[i].notes = {{2, 4}}
          /\ \A j \in 1 .. Len(moves) : moves[j].playerId = 2 => j = i

\* C31: no move both completes the board and is the error that crosses the
\* threshold: a step that sets the won flag does not raise the error
\* counter, a won room is game over with fewer than 3 errors, and a room
\* whose counter stands at 3 is not won.
C31_WonRoomIsBelowThreshold ==
    /\ [][(isWon' /\ ~isWon) => errors' = errors]_vars
    /\ [](isWon => (isGameOver /\ errors < MaxErrors))
    /\ [](errors >= MaxErrors => ~isWon)

\* The room was won by a move made after an error had been counted.
C31_Witness ==
    /\ AcceptedMove
    /\ isWon
    /\ errors > 0
    /\ last.before.errors = errors

\* C32: gameEndedAt is null in every active state and set in every terminal
\* one; it is set by the accepted move that makes the room game over, to the
\* time of that move; it does not change while the room stays game over; a
\* new game sets it back to null.
C32_EndTimeStampedOnce ==
    /\ [](isGameOver <=> gameEndedAt # null)
    /\ [][(~isGameOver /\ isGameOver')
            => (AcceptedMove' /\ gameEndedAt' = currentMoveId)]_vars
    /\ [][(isGameOver /\ isGameOver') => gameEndedAt' = gameEndedAt]_vars
    /\ [][last'.op = "newGame" => gameEndedAt' = null]_vars

\* A move was refused in a room that ended with the move before it: the
\* end time is still the time of that move.
C32_Witness ==
    /\ isGameOver
    /\ last.op = "move" /\ ~last.ok
    /\ gameEndedAt = currentMoveId - 1

\* C33: an accepted note move makes the notes of its cell the supplied set,
\* whatever they were, and leaves the board, the incorrect mask, the notes of
\* every other cell and the error counter unchanged; its record is marked
\* correct.
C33_NoteMoveReplacesNotes ==
    [][(AcceptedMove' /\ last'.moveType = "note")
       => /\ notes'[last'.row][last'.col] = last'.notes
          /\ \A cell \in Cells \ {<<last'.row, last'.col>>} :
                notes'[cell[1]][cell[2]] = notes[cell[1]][cell[2]]
          /\ board' = board
          /\ incorrectCells' = incorrectCells
          /\ errors' = errors
          /\ moves'[Len(moves')].moveType = "note"
          /\ moves'[Len(moves')].isCorrect]_vars

\* A note move has just replaced notes that differed from the supplied set.
C33_Witness ==
    /\ AcceptedMove
    /\ last.moveType = "note"
    /\ last.before.notes \notin {{}, last.notes}
    /\ notes[last.row][last.col] = last.notes
    /\ moves[Len(moves)].isCorrect

\* C34: with pencil mode off, a digit entered on an unlocked cell that holds
\* this digit, in a room that is not game over, is sent as a number move
\* with an empty value; after it the cell is 0 on the board and not marked
\* incorrect, and the error counter is what it was.
C34_SameDigitDeletes ==
    [][LET row == last'.row
           col == last'.col
       IN  (/\ last'.op \in {"input", "move"}
            /\ last'.moveType = "number"
            /\ ~isGameOver
            /\ ~lockedCells[row][col]
            /\ board[row][col] # 0
            /\ last'.value \in {null, board[row][col]})
           => (/\ last'.op = "move" /\ last'.ok
               /\ last'.value = null
               /\ board'[row][col] = 0
               /\ incorrectCells'[row][col] = FALSE
               /\ errors' = errors)]_vars

\* C35: an accepted move never lowers the error counter: a clear, or the
\* correct digit, on a cell marked incorrect takes the mark away and leaves
\* the counter; the counter goes down only in an undo or a new game.
C35_MovesNeverRefundErrors ==
    /\ [][AcceptedMove' => errors' >= errors]_vars
    /\ [][(/\ AcceptedMove'
            /\ incorrectCells[last'.row][last'.col]
            /\ \/ last'.moveType = "clear"
               \/ /\ last'.moveType = "number"
                  /\ last'.value = solution[last'.row][last'.col])
           => (/\ ~incorrectCells'[last'.row][last'.col]
               /\ errors' = errors)]_vars
    /\ [][errors' < errors => last'.op \in {"undo", "newGame"}]_vars

\* A cell marked incorrect has just been cleared: the mark is gone and the
\* error is still counted.
C35_Witness ==
    /\ AcceptedMove
    /\ last.moveType = "clear"
    /\ last.before.incorrect
    /\ ~incorrectCells[last.row][last.col]
    /\ errors = last.before.errors
    /\ errors > 0

\* The records of the move log that are marked incorrect.
IncorrectRecords == {i \in 1 .. Len(moves) : ~moves[i].isCorrect}

\* C36: in a room that has had no new game, the error counter is the number
\* of records in the move log that are marked incorrect.
C36_ErrorsCountIncorrectRecords == errors = Cardinality(IncorrectRecords)

\* Player 1 has just undone a move while a record of player 2 marked
\* incorrect is still in the log: one error is counted.
C36_Witness ==
    /\ AcceptedUndo
    /\ last.playerId = 1
    /\ errors = 1
    /\ \E i \in IncorrectRecords : moves[i].playerId = 2
    /\ currentMoveId > Len(moves) + 1

\* C37: an accepted undo changes the board value, the notes and the
\* incorrect flag of no cell other than the cell of the move it undoes, also
\* when another player has moved since that move.
C37_UndoTouchesOneCell ==
    [][AcceptedUndo'
       => \A cell \in Cells \ {<<Undone.row, Undone.col>>} :
             /\ board'[cell[1]][cell[2]] = board[cell[1]][cell[2]]
             /\ notes'[cell[1]][cell[2]] = notes[cell[1]][cell[2]]
             /\ incorrectCells'[cell[1]][cell[2]]
                   = incorrectCells[cell[1]][cell[2]]]_vars

\* Player 1 has just undone a move older than the newest record, a wrong
\* digit of player 2 at (1,0): that digit and its mark are still there.
C37_Witness ==
    /\ AcceptedUndo
    /\ last.playerId = 1
    /\ Len(moves) > 0
    /\ moves[Len(moves)].id = currentMoveId - 1
    /\ moves[Len(moves)].playerId = 2
    /\ <<moves[Len(moves)].row, moves[Len(moves)].col>> = <<1, 0>>
    /\ board[1][0] = moves[Len(moves)].value
    /\ incorrectCells[1][0]

RECURSIVE CompletionsOf(_)

\* The completions of p, found by giving one empty cell each of its
\* candidates in turn.
CompletionsOf(p) ==
    IF Empties(p) = {} THEN {p}
    ELSE LET cell == CHOOSE e \in Empties(p) : TRUE
         IN  UNION {CompletionsOf(SetCell(p, cell[1], cell[2], v)) :
                       v \in Candidates(p, cell)}

\* C38: when canSolveWithLogic returns true for a grid, the grid has exactly
\* one completion, hasUniqueSolution returns true for it, and the grid the
\* deductions filled in is that completion.
C38_DeductionImpliesUniqueness ==
    (fn = "canSolveWithLogic" /\ callState = "returned" /\ result)
        => /\ CompletionsOf(argBoard) = {workingBoard}
           /\ IsValidSolution(workingBoard)
           /\ hasUniqueSolution(argBoard)

\* canSolveWithLogic has returned true for a grid with 15 empty cells.
C38_Witness ==
    /\ fn = "canSolveWithLogic"
    /\ callState = "returned"
    /\ result
    /\ Cardinality(Empties(argBoard)) >= 15
    /\ workingBoard \in CompletionsOf(argBoard)

====
